---------------------------- MODULE Spec2Model ----------------------------
(***************************************************************************)
(* The threaded log-to-CSV pipeline of oai_gnb_monitor                     *)
(* (src/unnamed/part_000): reader_thread_func, parser_thread_func and      *)
(* writer_thread_func connected by two SafeQueue objects, with the         *)
(* per-RNTI working map temp_ue_data.                                      *)
(*                                                                         *)
(* Representation.                                                         *)
(*  - A log line is an entry of LineTable: the rule whose regex matches it *)
(*    first (the regex grammar itself is taken as given), the captured     *)
(*    RNTI, the captured state token and the numeric captures in group     *)
(*    order; every numeric capture is the captured text, a sequence of     *)
(*    characters, and std::stoi / std::stod are computed on that text.     *)
(*  - The input stream is a sequence of LineTable indices.  A std::string  *)
(*    travelling through line_queue is represented by its position in the  *)
(*    input (position 0 is the empty string a fresh std::string holds).    *)
(*  - double values are kept in hundredths.                                *)
(*  - Each thread advances one shared-memory statement at a time; an       *)
(*    operation on a SafeQueue is one step because it runs under the       *)
(*    queue's mutex.  temp_ue_data has no lock: every statement that       *)
(*    touches it is a step of its own and the steps of the two threads     *)
(*    that touch it interleave freely.                                     *)
(***************************************************************************)
EXTENDS Integers, Sequences, FiniteSets, TLC

(* ------------------------------ bounds --------------------------------- *)
\* longest input stream explored exhaustively (Scenarios adds longer ones)
MaxLines == 1
\* parse_line stops pushing after this many records (the stale-line loop of
\* parser_thread_func would otherwise push without end)
MaxRecords == 3
\* std::time(nullptr) ranges over 1..MaxClock
MaxClock == 2
\* threads calling one SafeQueue on its own, and the calls they make in all
NThreads == 3
MaxOps == 4

(* ------------------------------ UEData --------------------------------- *)
UEData0 ==
    [rnti |-> "", state |-> "", rsrp |-> 0, pcmax |-> 0, ue_id |-> 0, ph |-> 0,
     cqi |-> 0, dl_ri |-> 0, ul_ri |-> 0, dlsch_err |-> 0, pucch_dtx |-> 0,
     dl_bler |-> 0, dl_mcs |-> 0, ulsch_err |-> 0, ulsch_dtx |-> 0,
     ul_bler |-> 0, ul_mcs |-> 0, nprb |-> 0, snr |-> 0, timestamp |-> 0]

\* the measurement fields (everything but the identifier and the timestamp)
DataFields == (DOMAIN UEData0) \ {"rnti", "timestamp"}

(* --------------------------- std::stoi / stod -------------------------- *)
INT_MAX == 2147483647

Digits == {"0", "1", "2", "3", "4", "5", "6", "7", "8", "9"}

DigitVal(c) ==
    CASE c = "0" -> 0 [] c = "1" -> 1 [] c = "2" -> 2 [] c = "3" -> 3
      [] c = "4" -> 4 [] c = "5" -> 5 [] c = "6" -> 6 [] c = "7" -> 7
      [] c = "8" -> 8 [] c = "9" -> 9

\* the longest prefix of text made of digits
RECURSIVE DigitPrefix(_)
DigitPrefix(text) ==
    IF text = <<>> \/ Head(text) \notin Digits THEN <<>>
    ELSE <<Head(text)>> \o DigitPrefix(Tail(text))

\* value of a digit string, -1 once it exceeds INT_MAX (out_of_range)
RECURSIVE Magnitude(_, _)
Magnitude(digits, acc) ==
    IF digits = <<>> THEN acc
    ELSE LET d == DigitVal(Head(digits)) IN
         IF acc > (INT_MAX - d) \div 10 THEN -1
         ELSE Magnitude(Tail(digits), acc * 10 + d)

\* std::stoi: optional sign, then digits; ok = FALSE where it throws
\* (invalid_argument without a digit, out_of_range beyond int)
stoi(text) ==
    LET neg  == text # <<>> /\ Head(text) = "-"
        body == IF neg THEN Tail(text) ELSE text
        ds   == DigitPrefix(body)
        mag  == Magnitude(ds, 0)
    IN  IF ds = <<>> \/ mag < 0 THEN [ok |-> FALSE, val |-> 0]
        ELSE [ok |-> TRUE, val |-> IF neg THEN 0 - mag ELSE mag]

\* std::stod on text of [0-9.]+ : digits, optionally a point and digits;
\* throws invalid_argument when neither part has a digit.  Value in hundredths.
stod(text) ==
    LET ip   == DigitPrefix(text)
        rest == SubSeq(text, Len(ip) + 1, Len(text))
        fp   == IF rest # <<>> /\ Head(rest) = "." THEN DigitPrefix(Tail(rest))
                ELSE <<>>
        f2   == SubSeq(fp \o <<"0", "0">>, 1, 2)
    IN  IF ip = <<>> /\ fp = <<>> THEN [ok |-> FALSE, val |-> 0]
        ELSE [ok |-> TRUE,
              val |-> Magnitude(ip, 0) * 100 + Magnitude(f2, 0)]

(* ------------------------------ log lines ------------------------------ *)
\* The lines the input is drawn from.  rule is the first pattern of
\* parse_line that matches ("none": no pattern, "empty": the empty line),
\* caps the numeric capture groups in order.
LineTable == <<
    \* 1  UE RNTI 928c CU-UE-ID 1 in-sync PH 45 dB PCMAX 21 dBm, average RSRP -83
    [rule |-> "basic", rnti |-> "928c", state |-> "in-sync",
     caps |-> << <<"1">>, <<"4", "5">>, <<"2", "1">>, <<"-", "8", "3">> >>],
    \* 2  UE 928c: CQI 13, RI 2, PMI (0,0)
    [rule |-> "ind1", rnti |-> "928c", state |-> "",
     caps |-> << <<"1", "3">>, <<"2">> >>],
    \* 3  UE 928c: ulsch_rounds .., ulsch_errors 0, ulsch_DTX 0, BLER 0.07 MCS (1) 6 .. NPRB 106  SNR 17.5
    [rule |-> "ul", rnti |-> "928c", state |-> "",
     caps |-> << <<"0">>, <<"0">>, <<"0", ".", "0", "7">>, <<"6">>,
                 <<"1", "0", "6">>, <<"1", "7", ".", "5">> >>],
    \* 4  UE 6542: ulsch_rounds .., ulsch_errors 2, ulsch_DTX 1, BLER 0.1 MCS (1) 9 .. NPRB 51  SNR 20.0
    [rule |-> "ul", rnti |-> "6542", state |-> "",
     caps |-> << <<"2">>, <<"1">>, <<"0", ".", "1">>, <<"9">>,
                 <<"5", "1">>, <<"2", "0", ".", "0">> >>],
    \* 5  UE 928c: ulsch_rounds .., ulsch_errors 3, ulsch_DTX 4, BLER . MCS (1) 6 .. NPRB 106  SNR 17.5
    [rule |-> "ul", rnti |-> "928c", state |-> "",
     caps |-> << <<"3">>, <<"4">>, <<".">>, <<"6">>,
                 <<"1", "0", "6">>, <<"1", "7", ".", "5">> >>],
    \* 6  UE 928c: CQI 99999999999, RI 2
    [rule |-> "ind1", rnti |-> "928c", state |-> "",
     caps |-> << <<"9", "9", "9", "9", "9", "9", "9", "9", "9", "9", "9">>,
                 <<"2">> >>],
    \* 7  [NR_MAC]   Frame.Slot 128.0
    [rule |-> "none", rnti |-> "", state |-> "", caps |-> <<>>],
    \* 8  (empty line)
    [rule |-> "empty", rnti |-> "", state |-> "", caps |-> <<>>],
    \* 9  UE 928c: UL-RI 1, TPMI 0
    [rule |-> "ind2", rnti |-> "928c", state |-> "", caps |-> << <<"1">> >>],
    \* 10 UE 928c: dlsch_rounds .., dlsch_errors 0, pucch0_DTX 9, BLER 0.02678 MCS (1) 22
    [rule |-> "dl", rnti |-> "928c", state |-> "",
     caps |-> << <<"0">>, <<"9">>, <<"0", ".", "0", "2", "6", "7", "8">>,
                 <<"2", "2">> >>]
  >>

\* std::stoi and std::stod of every numeric capture of every line
Converted ==
    [i \in DOMAIN LineTable |->
        [k \in DOMAIN LineTable[i].caps |->
            [stoi |-> stoi(LineTable[i].caps[k]),
             stod |-> stod(LineTable[i].caps[k])]]]

RNTIs == {LineTable[i].rnti : i \in DOMAIN LineTable} \ {""}

\* the std::string keys parse_line can index temp_ue_data with: "rnti" is
\* the empty string until a rule assigns it
Keys == RNTIs \cup {""}

\* all input streams of at most MaxLines lines
RECURSIVE SeqsUpTo(_, _)
SeqsUpTo(S, n) ==
    IF n = 0 THEN {<<>>}
    ELSE LET shorter == SeqsUpTo(S, n - 1) IN
         shorter \cup {Append(s, x) : s \in {t \in shorter : Len(t) = n - 1}, x \in S}

\* the five lines of one reporting cycle of 928c, in log order
FiveLines == <<1, 2, 9, 10, 3>>

\* longer streams explored besides the exhaustive short ones
Scenarios ==
    { <<1, 3>>,         \* basic-info line and terminal line (928c)
      <<4, 3>>,         \* a terminal line of 6542, then one of 928c
      <<8, 3>>,         \* an empty line before a terminal line
      <<3, 7>>,         \* a terminal line followed by a line no rule matches
      <<2, 3, 3>>,      \* quality line, terminal line, terminal line again (928c)
      <<2, 1, 3>>,      \* quality line, basic-info line, terminal line (928c)
      <<1, 1, 3>>,      \* two basic-info lines, terminal line (928c)
      <<2, 4, 3>>,      \* 928c and 6542 interleaved, each with its terminal line
      <<1, 3, 2, 3>>,   \* a full record of 928c, then a quality line and a terminal line
      FiveLines }

\* the lines every short stream is built from (the uplink-rank and
\* downlink-scheduling lines occur in the scenarios)
ShortLines == {i \in DOMAIN LineTable : LineTable[i].rule \notin {"ind2", "dl"}}

Inputs == SeqsUpTo(ShortLines, MaxLines) \cup Scenarios

(* ------------------------------ SafeQueue ------------------------------ *)
\* SafeQueue(): empty std::queue, done(false)
SafeQueue0 == [items |-> <<>>, done |-> FALSE]

\* a push that puts the value at the front of the queue
push_front(q, value) == [q EXCEPT !.items = <<value>> \o @]

\* SafeQueue::push: queue.push(value) under the lock (never blocks)
push(q, value) == [q EXCEPT !.items = Append(@, value)]

\* SafeQueue::set_done
set_done(q) == [q EXCEPT !.done = TRUE]

\* SafeQueue::is_empty
is_empty(q) == q.items = <<>>

\* the predicate cv.wait waits for in wait_pop
wait_pop_ready(q) == q.items # <<>> \/ q.done

\* wait_pop returns without assigning when "done && queue.empty()"
wait_pop_delivers(q) == ~(q.done /\ q.items = <<>>)

\* a pop that leaves the front item in the queue
pop_keep(q) == q

\* value = queue.front(); queue.pop()
pop(q) == [q EXCEPT !.items = Tail(@)]

(* ------------------------- temp_ue_data (std::map) --------------------- *)
\* an insertion that leaves an int member of the new entry indeterminate
MapTouch_uninit(m, k) ==
    IF k \in DOMAIN m THEN m ELSE m @@ (k :> [UEData0 EXCEPT !.pcmax = 1])

\* std::map::operator[]: the entry, value-initialised when absent
MapTouch(m, k) == IF k \in DOMAIN m THEN m ELSE m @@ (k :> UEData0)

\* temp_ue_data[k].f = v
MapSet(m, k, f, v) == [MapTouch(m, k) EXCEPT ![k][f] = v]

\* temp_ue_data.erase(k)
MapErase(m, k) == [x \in (DOMAIN m) \ {k} |-> m[x]]

(* ------------------------- parse_line statements ----------------------- *)
\* a no-match branch that inserts an entry for the (empty) identifier
NoMatch_inserts == << [op |-> "create", field |-> "", cap |-> 0, skip |-> 1] >>

\* the final "else { ; }" of parse_line: no statement at all
NoMatch == <<>>

\* The body parse_line runs for each rule, one entry per statement that
\* touches temp_ue_data: op is what the statement does, field the UEData
\* member it assigns, cap the capture group it converts (index into caps).
\* "create" is create_ue_data's find + insert, "rnti" and "stamp" its two
\* assignments, skipped (skip) when the entry exists.
Stmts(rule) ==
    CASE rule = "basic" ->
           << [op |-> "create", field |-> "",          cap |-> 0, skip |-> 3],
              [op |-> "rnti",   field |-> "rnti",      cap |-> 0, skip |-> 1],
              [op |-> "stamp",  field |-> "timestamp", cap |-> 0, skip |-> 1],
              [op |-> "stamp",  field |-> "timestamp", cap |-> 0, skip |-> 1],
              [op |-> "stoi",   field |-> "ue_id",     cap |-> 1, skip |-> 1],
              [op |-> "str",    field |-> "state",     cap |-> 0, skip |-> 1],
              [op |-> "stoi",   field |-> "ph",        cap |-> 2, skip |-> 1],
              [op |-> "stoi",   field |-> "rsrp",      cap |-> 3, skip |-> 1] >>
      [] rule = "ind1" ->
           << [op |-> "stoi",   field |-> "cqi",       cap |-> 1, skip |-> 1],
              [op |-> "stoi",   field |-> "dl_ri",     cap |-> 2, skip |-> 1] >>
      [] rule = "ind2" ->
           << [op |-> "stoi",   field |-> "ul_ri",     cap |-> 1, skip |-> 1] >>
      [] rule = "dl" ->
           << [op |-> "stoi",   field |-> "dlsch_err", cap |-> 1, skip |-> 1],
              [op |-> "stoi",   field |-> "pucch_dtx", cap |-> 2, skip |-> 1],
              [op |-> "stod",   field |-> "dl_bler",   cap |-> 3, skip |-> 1],
              [op |-> "stoi",   field |-> "dl_mcs",    cap |-> 4, skip |-> 1] >>
      [] rule = "ul" ->
           << [op |-> "stoi",   field |-> "ulsch_err", cap |-> 1, skip |-> 1],
              [op |-> "stoi",   field |-> "ulsch_dtx", cap |-> 2, skip |-> 1],
              [op |-> "stod",   field |-> "ul_bler",   cap |-> 3, skip |-> 1],
              [op |-> "stoi",   field |-> "ul_mcs",    cap |-> 4, skip |-> 1],
              [op |-> "stoi",   field |-> "nprb",      cap |-> 5, skip |-> 1],
              [op |-> "stod",   field |-> "snr",       cap |-> 6, skip |-> 1],
              [op |-> "push",   field |-> "",          cap |-> 0, skip |-> 1] >>
      [] OTHER -> NoMatch

\* the terminal rule is the one whose body ends in data_queue.push
IsTerminal(ln) == ln.rule = "ul"

(* -------------------------------- state -------------------------------- *)
VARIABLES
    input,          \* the lines std::cin will deliver (LineTable indices)
    rpos,           \* reader: position of the next line std::getline returns
    rpc,            \* reader: "loop" | "returned"
    line_queue,     \* SafeQueue<std::string>, items are input positions
    data_queue,     \* SafeQueue<UEData>, items are [data, src]
    done,           \* Parser::done (std::atomic<bool>)
    ppc,            \* parser: "wait_pop" | "check" | "parse" | "returned"
    line,           \* parser_thread_func's local line (input position, 0 = "")
    popped,         \* history: the parser's last wait_pop delivered a line
    pstmt,          \* parser: index of the next statement of parse_line
    temp_ue_data,   \* std::map<std::string, UEData>
    wpc,            \* writer: "wait_pop" | "store" | "erase" | "returned"
    data,           \* writer_thread_func's local data, [data, src]
    clock,          \* the last value std::time(nullptr) returned
    export_combined,\* Parser::export_combined
    combined_file,  \* std::ofstream combined_file
    ue_file_handler,\* std::map<std::string, std::ofstream>
    \* history (not read by any transition of the program)
    pushed,         \* every data_queue.push of parse_line, in order
    stored,         \* every argument store_data was called with, in order
    written,        \* per RNTI: fields assigned by parse_line since its last push
    first_seen,     \* per RNTI: clock interval of the first line since its last push
    call,           \* the current / last parse_line call: how it ended, what
                    \* it changed in its own entry and outside of it
    acc,            \* per RNTI: values assigned since its last push (vals) and
                    \* fields assigned since its map entry was inserted (made)
    rlog,           \* the reader's line_queue.push and set_done calls
    \* one SafeQueue<int> called by NThreads threads
    hq,             \* the queue: items and done
    hpc,            \* per thread: "idle" | "blocked" (in cv.wait) | "woken"
    hops,           \* calls started so far
    hcloses,        \* set_done calls so far
    hlast,          \* the call that returned last
    hlog            \* the values pushed (put) and the values delivered by pops
                    \* (got), each in the order the calls held the mutex

vars == <<input, rpos, rpc, line_queue, data_queue, done, ppc, line, popped, pstmt,
          temp_ue_data, wpc, data, clock, export_combined, combined_file,
          ue_file_handler, pushed, stored, written, first_seen, call, acc, rlog,
          hq, hpc, hops, hcloses, hlast, hlog>>

hvars == <<hq, hpc, hops, hcloses, hlast, hlog>>

pvars == <<input, rpos, rpc, line_queue, data_queue, done, ppc, line, popped, pstmt,
           temp_ue_data, wpc, data, clock, export_combined, combined_file,
           ue_file_handler, pushed, stored, written, first_seen, call, acc, rlog>>

HThreads == 1..NThreads

NoReturn == [op |-> "none", thread |-> 0, waited |-> FALSE, delivered |-> FALSE,
             value |-> 0, before |-> SafeQueue0, after |-> SafeQueue0]

\* the text behind an input position; a fresh std::string is empty
EmptyLine == [rule |-> "empty", rnti |-> "", state |-> "", caps |-> <<>>]

Text(pos) == IF pos = 0 THEN EmptyLine ELSE LineTable[input[pos]]

NoCall == [outcome |-> "none", dirty |-> FALSE, first |-> FALSE,
           changed |-> {}, inserted |-> FALSE, other |-> FALSE,
           queued |-> FALSE]

NotSeen == [lo |-> 0, hi |-> 0]

NoAcc == [vals |-> <<>>, made |-> {}]

\* a default-constructed std::ofstream: no file is associated with it
ofstream0 == [is_open |-> FALSE, rows |-> <<>>]

\* std::ofstream::open (the file is created or truncated)
open(f) == [is_open |-> TRUE, rows |-> <<>>]

\* operator<< ... << std::endl of one row: a stream without a file takes nothing
write(f, row) == IF f.is_open THEN [f EXCEPT !.rows = Append(@, row)] ELSE f

\* the header row and the row of one record (src: the line that pushed it)
HeaderRow == [kind |-> "header", data |-> UEData0, src |-> 0]

DataRow(d) == [kind |-> "row", data |-> d.data, src |-> d.src]

\* Parser::Parser and the locals of the three thread functions
Constructed ==
    /\ rpos = 1
    /\ rpc = "loop"
    /\ line_queue = SafeQueue0
    /\ data_queue = SafeQueue0
    /\ done = FALSE
    /\ ppc = "wait_pop"
    /\ line = 0
    /\ popped = FALSE
    /\ pstmt = 1
    /\ temp_ue_data = <<>>
    /\ wpc = "wait_pop"
    /\ data = [data |-> UEData0, src |-> 0]
    /\ clock = 1
    /\ combined_file = ofstream0
    /\ ue_file_handler = <<>>
    /\ pushed = <<>>
    /\ stored = <<>>
    /\ written = [x \in Keys |-> {}]
    /\ first_seen = [x \in Keys |-> NotSeen]
    /\ call = NoCall
    /\ acc = [x \in Keys |-> NoAcc]
    /\ rlog = [pushes |-> <<>>, closes |-> 0]

\* SafeQueue::SafeQueue, no thread inside a call
QueueConstructed ==
    /\ hq = SafeQueue0
    /\ hpc = [t \in HThreads |-> "idle"]
    /\ hops = 0
    /\ hcloses = 0
    /\ hlast = NoReturn
    /\ hlog = [put |-> <<>>, got |-> <<>>]

\* main: the stream on std::cin and the --sep switch
Init ==
    /\ input \in Inputs
    /\ export_combined \in BOOLEAN
    /\ Constructed
    /\ QueueConstructed

files == <<export_combined, combined_file, ue_file_handler>>

(* ------------------------------- reader -------------------------------- *)
\* a test that lets every line through
not_empty_always(pos) == TRUE

\* reader_thread_func: !line.empty()
not_empty(pos) == Text(pos).rule # "empty"

\* reader_thread_func, one round of the loop: std::getline delivers the next
\* line, which is pushed unless it is empty
reader_getline ==
    /\ rpc = "loop"
    /\ rpos <= Len(input)
    /\ line_queue' = IF not_empty(rpos) THEN push(line_queue, rpos)
                     ELSE line_queue
    /\ rlog' = IF not_empty(rpos) THEN [rlog EXCEPT !.pushes = Append(@, rpos)]
               ELSE rlog
    /\ rpos' = rpos + 1
    /\ UNCHANGED <<hvars, popped, input, rpc, data_queue, done, ppc, line, pstmt, temp_ue_data,
                   wpc, data, clock, pushed, stored, written, first_seen, call,
                   files, acc>>

\* reader_thread_func at end of input: line_queue.set_done() and return
reader_eof ==
    /\ rpc = "loop"
    /\ rpos > Len(input)
    /\ line_queue' = set_done(line_queue)
    /\ rpc' = "returned"
    /\ rlog' = [rlog EXCEPT !.closes = @ + 1]
    /\ UNCHANGED <<hvars, popped, input, rpos, data_queue, done, ppc, line, pstmt, temp_ue_data,
                   wpc, data, clock, pushed, stored, written, first_seen, call,
                   files, acc>>

(* ------------------------------- parser -------------------------------- *)
\* parser_thread_func: line_queue.wait_pop(line)
parser_wait_pop ==
    /\ ppc = "wait_pop"
    /\ wait_pop_ready(line_queue)
    /\ IF wait_pop_delivers(line_queue)
       THEN /\ line' = Head(line_queue.items)
            /\ line_queue' = pop(line_queue)
       ELSE UNCHANGED <<line, line_queue>>
    /\ popped' = wait_pop_delivers(line_queue)
    /\ ppc' = "check"
    /\ UNCHANGED <<hvars, input, rpos, rpc, data_queue, done, pstmt, temp_ue_data, wpc,
                   data, clock, pushed, stored, written, first_seen, call,
                   files, acc, rlog>>

\* the loop exit of parser_thread_func: line_queue.is_empty() && done
parser_break == is_empty(line_queue) /\ done

\* parser_thread_func after wait_pop: either break, data_queue.set_done() and
\* return, or enter parse_line(line); a line no pattern matches leaves
\* parse_line at once
parser_check ==
    /\ ppc = "check"
    /\ IF parser_break
       THEN /\ data_queue' = set_done(data_queue)
            /\ ppc' = "returned"
            /\ UNCHANGED <<pstmt, call, first_seen>>
       ELSE LET ln == Text(line)
                first == first_seen[ln.rnti].lo = 0
            IN  /\ pstmt' = 1
                /\ UNCHANGED data_queue
                /\ IF Stmts(ln.rule) = <<>>
                   THEN /\ ppc' = "wait_pop"
                        /\ call' = [NoCall EXCEPT !.outcome = "returned"]
                        /\ UNCHANGED first_seen
                   ELSE /\ ppc' = "parse"
                        /\ call' = [NoCall EXCEPT !.outcome = "running",
                                                  !.first = first]
                        /\ first_seen' =
                             IF first
                             THEN [first_seen EXCEPT ![ln.rnti] =
                                      [lo |-> clock, hi |-> clock]]
                             ELSE first_seen
    /\ UNCHANGED <<hvars, popped, input, rpos, rpc, line_queue, done, line, temp_ue_data, wpc,
                   data, clock, pushed, stored, written, files, acc, rlog>>

\* what std::time(nullptr) can return: the clock does not run backwards
TimeChoices(s) ==
    IF s.op = "stamp" THEN {clock, IF clock < MaxClock THEN clock + 1 ELSE clock}
    ELSE {clock}

\* parse_line (with create_ue_data), one statement of the matched rule's body.
\* The right-hand side of an assignment is evaluated first, so a std::stoi or
\* std::stod that throws leaves temp_ue_data untouched by that statement and
\* control goes to the catch block of parser_thread_func.
parse_line ==
    /\ ppc = "parse"
    /\ LET ln   == Text(line)
           x    == ln.rnti
           body == Stmts(ln.rule)
           s    == body[pstmt]
           conv == CASE s.op = "stoi" -> Converted[input[line]][s.cap].stoi
                     [] s.op = "stod" -> Converted[input[line]][s.cap].stod
                     [] OTHER -> [ok |-> TRUE, val |-> 0]
       IN  \E t \in TimeChoices(s) :
           IF ~conv.ok
           THEN /\ ppc' = "wait_pop"
                /\ pstmt' = 1
                /\ call' = [call EXCEPT !.outcome = "threw"]
                /\ UNCHANGED <<temp_ue_data, clock, data_queue, pushed, written,
                               first_seen, acc>>
           ELSE LET m1 == CASE s.op = "create" -> MapTouch(temp_ue_data, x)
                            [] s.op = "rnti" -> MapSet(temp_ue_data, x, s.field, x)
                            [] s.op = "stamp" -> MapSet(temp_ue_data, x, s.field, t)
                            [] s.op = "str" ->
                                 MapSet(temp_ue_data, x, s.field, ln.state)
                            [] s.op = "push" -> MapTouch(temp_ue_data, x)
                            [] OTHER -> MapSet(temp_ue_data, x, s.field, conv.val)
                    found == s.op = "create" /\ x \in DOMAIN temp_ue_data
                    next == pstmt + (IF found THEN s.skip ELSE 1)
                    last == next > Len(body)
                    ispush == s.op = "push"
                    seen == IF call.first THEN [first_seen[x] EXCEPT !.hi = t]
                            ELSE first_seen[x]
                    writes == s.op \in {"stoi", "stod", "str"}
                    val == IF s.op = "str" THEN ln.state ELSE conv.val
                    made == (IF x \in DOMAIN temp_ue_data THEN acc[x].made
                             ELSE {}) \cup (IF writes THEN {s.field} ELSE {})
                    old == IF x \in DOMAIN temp_ue_data THEN temp_ue_data[x]
                           ELSE UEData0
                    changed == IF s.field \in DOMAIN UEData0
                                  /\ m1[x][s.field] # old[s.field]
                               THEN {s.field} ELSE {}
                    other == \E y \in DOMAIN temp_ue_data \ {x} :
                                 m1[y] # temp_ue_data[y]
                IN  /\ ispush => Len(pushed) < MaxRecords
                    /\ temp_ue_data' = m1
                    /\ clock' = t
                    /\ data_queue' =
                         IF ispush
                         THEN push(data_queue, [data |-> m1[x], src |-> line])
                         ELSE data_queue
                    /\ pushed' =
                         IF ispush
                         THEN Append(pushed, [data |-> m1[x], src |-> line,
                                              fresh |-> written[x],
                                              lo |-> seen.lo, hi |-> seen.hi,
                                              vals |-> acc[x].vals,
                                              made |-> made])
                         ELSE pushed
                    /\ written' =
                         IF ispush THEN [written EXCEPT ![x] = {}]
                         ELSE IF s.op \in {"stoi", "stod", "str"}
                              THEN [written EXCEPT ![x] = @ \cup {s.field}]
                              ELSE written
                    /\ first_seen' =
                         [first_seen EXCEPT ![x] = IF ispush THEN NotSeen ELSE seen]
                    /\ acc' =
                         [acc EXCEPT ![x] =
                            [vals |-> IF ispush THEN <<>>
                                      ELSE IF writes THEN (s.field :> val) @@ @.vals
                                      ELSE @.vals,
                             made |-> made]]
                    /\ call' = [outcome |-> IF last THEN "returned" ELSE "running",
                                dirty |-> call.dirty \/ ispush \/ m1 # temp_ue_data,
                                first |-> call.first,
                                changed |-> call.changed \cup changed,
                                inserted |-> call.inserted
                                               \/ x \notin DOMAIN temp_ue_data,
                                other |-> call.other \/ other,
                                queued |-> call.queued \/ ispush]
                    /\ ppc' = IF last THEN "wait_pop" ELSE "parse"
                    /\ pstmt' = IF last THEN 1 ELSE next
    /\ UNCHANGED <<hvars, popped, input, rpos, rpc, line_queue, done, line, wpc, data, stored,
                   files, rlog>>

(* ------------------------------- writer -------------------------------- *)
\* writer_thread_func: data_queue.wait_pop(data)
writer_wait_pop ==
    /\ wpc = "wait_pop"
    /\ wait_pop_ready(data_queue)
    /\ IF wait_pop_delivers(data_queue)
       THEN /\ data' = Head(data_queue.items)
            /\ data_queue' = pop(data_queue)
       ELSE UNCHANGED <<data, data_queue>>
    /\ wpc' = "store"
    /\ UNCHANGED <<hvars, popped, input, rpos, rpc, line_queue, done, ppc, line, pstmt,
                   temp_ue_data, clock, pushed, stored, written, first_seen, call,
                   files, acc, rlog>>

\* a loop exit that leaves as soon as the queue is seen empty
writer_break_on_empty == is_empty(data_queue)

\* the loop exit of writer_thread_func: done && data_queue.is_empty()
writer_break == done /\ is_empty(data_queue)

\* store_data with export_combined: one row to combined_file
store_combined(d) == write(combined_file, DataRow(d))

\* store_data without export_combined: the stream of data.rnti is created,
\* opened and given its header if the map has none, then takes one row
\* (pubsetbuf on the open stream is taken to leave its output as it is)
store_per_ue(d) ==
    LET k == d.data.rnti
        h == IF k \in DOMAIN ue_file_handler THEN ue_file_handler
             ELSE (k :> write(open(ofstream0), HeaderRow)) @@ ue_file_handler
    IN  [h EXCEPT ![k] = write(@, DataRow(d))]

\* writer_thread_func after wait_pop: either break and return, or
\* store_data(data) up to the row it writes
writer_store ==
    /\ wpc = "store"
    /\ IF writer_break
       THEN /\ wpc' = "returned"
            /\ UNCHANGED <<stored, combined_file, ue_file_handler>>
       ELSE /\ wpc' = "erase"
            /\ stored' = Append(stored, data)
            /\ IF export_combined
               THEN /\ combined_file' = store_combined(data)
                    /\ UNCHANGED ue_file_handler
               ELSE /\ ue_file_handler' = store_per_ue(data)
                    /\ UNCHANGED combined_file
    /\ UNCHANGED <<hvars, popped, input, rpos, rpc, line_queue, data_queue, done, ppc, line,
                   pstmt, temp_ue_data, data, clock, pushed, written, first_seen,
                   call, export_combined, acc, rlog>>

\* the last statement of store_data: temp_ue_data.erase(data.rnti)
writer_erase ==
    /\ wpc = "erase"
    /\ temp_ue_data' = MapErase(temp_ue_data, data.data.rnti)
    /\ wpc' = "wait_pop"
    /\ UNCHANGED <<hvars, popped, input, rpos, rpc, line_queue, data_queue, done, ppc, line,
                   pstmt, data, clock, pushed, stored, written, first_seen, call,
                   files, acc, rlog>>

(* ---------------------------- specifications --------------------------- *)
reader_thread_func == reader_getline \/ reader_eof

parser_thread_func == parser_wait_pop \/ parser_check \/ parse_line

writer_thread_func == writer_wait_pop \/ writer_store \/ writer_erase

Next == reader_thread_func \/ parser_thread_func \/ writer_thread_func

Spec == Init /\ [][Next]_vars

\* main starts the three functions as std::thread: each keeps running while
\* it has a statement to execute
FairSpec ==
    /\ Spec
    /\ WF_vars(reader_thread_func)
    /\ WF_vars(parser_thread_func)
    /\ WF_vars(writer_thread_func)

\* the writer thread alone keeps running; the other two may stop anywhere
WriterFairSpec == Spec /\ WF_vars(writer_thread_func)

(* ------------------------ SafeQueue on its own -------------------------- *)
\* a notify that wakes nobody
notify_lost(pcs) == {pcs}

\* cv.notify_one(): one of the threads waiting on cv, if any, is woken
notify_one(pcs) ==
    IF \A t \in HThreads : pcs[t] # "blocked" THEN {pcs}
    ELSE {[pcs EXCEPT ![t] = "woken"] : t \in {u \in HThreads : pcs[u] = "blocked"}}

\* a notify that wakes one waiting thread only
notify_first(pcs) ==
    IF \A t \in HThreads : pcs[t] # "blocked" THEN pcs
    ELSE [pcs EXCEPT ![CHOOSE t \in HThreads : pcs[t] = "blocked"] = "woken"]

\* cv.notify_all(): every thread waiting on cv is woken
notify_all(pcs) ==
    [t \in HThreads |-> IF pcs[t] = "blocked" THEN "woken" ELSE pcs[t]]

\* wait_pop once the predicate of cv.wait holds, the lock being held: return
\* at once if done and empty, else move the front item out
wait_pop_return(t, waited) ==
    /\ hq' = IF wait_pop_delivers(hq) THEN pop(hq) ELSE hq
    /\ hpc' = [hpc EXCEPT ![t] = "idle"]
    /\ hlast' = [op |-> "wait_pop", thread |-> t, waited |-> waited,
                 delivered |-> wait_pop_delivers(hq),
                 value |-> IF wait_pop_delivers(hq) THEN Head(hq.items) ELSE 0,
                 before |-> hq, after |-> hq']
    /\ hlog' = IF wait_pop_delivers(hq)
               THEN [hlog EXCEPT !.got = Append(@, Head(hq.items))]
               ELSE hlog

\* SafeQueue::push, called by thread t with a value not pushed before
call_push(t) ==
    /\ hpc[t] = "idle"
    /\ hops < MaxOps
    /\ hops' = hops + 1
    /\ hq' = push(hq, hops + 1)
    /\ hpc' \in notify_one(hpc)
    /\ hlast' = [op |-> "push", thread |-> t, waited |-> FALSE,
                 delivered |-> FALSE, value |-> hops + 1,
                 before |-> hq, after |-> hq']
    /\ hlog' = [hlog EXCEPT !.put = Append(@, hops + 1)]
    /\ UNCHANGED <<hcloses, pvars>>

\* SafeQueue::attempt_pop, called by thread t
call_attempt_pop(t) ==
    /\ hpc[t] = "idle"
    /\ hops < MaxOps
    /\ hops' = hops + 1
    /\ hq' = IF is_empty(hq) THEN hq ELSE pop(hq)
    /\ hlast' = [op |-> "attempt_pop", thread |-> t, waited |-> FALSE,
                 delivered |-> ~is_empty(hq),
                 value |-> IF is_empty(hq) THEN 0 ELSE Head(hq.items),
                 before |-> hq, after |-> hq']
    /\ hlog' = IF is_empty(hq) THEN hlog
               ELSE [hlog EXCEPT !.got = Append(@, Head(hq.items))]
    /\ UNCHANGED <<hpc, hcloses, pvars>>

\* SafeQueue::wait_pop, called by thread t: the predicate is evaluated under
\* the lock; the thread returns, or releases the lock and waits on cv
call_wait_pop(t) ==
    /\ hpc[t] = "idle"
    /\ hops < MaxOps
    /\ hops' = hops + 1
    /\ IF wait_pop_ready(hq)
       THEN wait_pop_return(t, FALSE)
       ELSE /\ hpc' = [hpc EXCEPT ![t] = "blocked"]
            /\ UNCHANGED <<hq, hlast, hlog>>
    /\ UNCHANGED <<hcloses, pvars>>

\* cv.wait in thread t after a wakeup: the lock is taken again and the
\* predicate evaluated again
wake_wait_pop(t) ==
    /\ hpc[t] = "woken"
    /\ IF wait_pop_ready(hq)
       THEN wait_pop_return(t, TRUE)
       ELSE /\ hpc' = [hpc EXCEPT ![t] = "blocked"]
            /\ UNCHANGED <<hq, hlast, hlog>>
    /\ UNCHANGED <<hops, hcloses, pvars>>

\* std::condition_variable::wait may wake without a notify
spurious_wakeup(t) ==
    /\ hpc[t] = "blocked"
    /\ hpc' = [hpc EXCEPT ![t] = "woken"]
    /\ UNCHANGED <<hq, hops, hcloses, hlast, hlog, pvars>>

\* SafeQueue::set_done, called by thread t
call_set_done(t) ==
    /\ hpc[t] = "idle"
    /\ hops < MaxOps
    /\ hops' = hops + 1
    /\ hcloses' = hcloses + 1
    /\ hq' = set_done(hq)
    /\ hpc' = notify_all(hpc)
    /\ hlast' = [op |-> "set_done", thread |-> t, waited |-> FALSE,
                 delivered |-> FALSE, value |-> 0,
                 before |-> hq, after |-> hq']
    /\ UNCHANGED <<hlog, pvars>>

QueueInit ==
    /\ input = <<>>
    /\ export_combined = TRUE
    /\ Constructed
    /\ QueueConstructed

QueueNext ==
    \E t \in HThreads :
        \/ call_push(t)
        \/ call_attempt_pop(t)
        \/ call_wait_pop(t)
        \/ wake_wait_pop(t)
        \/ spurious_wakeup(t)
        \/ call_set_done(t)

QueueSpec == QueueInit /\ [][QueueNext]_vars

\* a woken thread gets the lock again; nothing makes a thread start a call
QueueFairSpec == QueueSpec /\ \A t \in HThreads : WF_vars(wake_wait_pop(t))

(* ------------------------------- claims -------------------------------- *)
AllReturned == rpc = "returned" /\ ppc = "returned" /\ wpc = "returned"

\* C1: under fair scheduling, once the reader has reached end of input all
\* three thread functions eventually return (main's joins complete).
C1_AllThreadsReturn == (rpos > Len(input)) ~> AllReturned

\* the rnti a line of the input carries
LineRnti(pos) == Text(pos).rnti

\* every std::stoi / std::stod of the rule's body succeeds on the line
Converts(pos) ==
    \A i \in DOMAIN Stmts(Text(pos).rule) :
        LET s == Stmts(Text(pos).rule)[i] IN
        /\ s.op = "stoi" => Converted[input[pos]][s.cap].stoi.ok
        /\ s.op = "stod" => Converted[input[pos]][s.cap].stod.ok

\* the input positions holding a well-formed terminal line
TerminalLines == {k \in 1..Len(input) : IsTerminal(Text(k)) /\ Converts(k)}

\* the reader is done, line_queue is empty and the parser is between lines
Drained == rpc = "returned" /\ is_empty(line_queue) /\ ppc = "wait_pop"

\* the pushes of parse_line as queue items
PushedItems == [i \in DOMAIN pushed |-> [data |-> pushed[i].data, src |-> pushed[i].src]]

\* the record the writer has popped and not yet handed to store_data
InHand == IF wpc = "store" THEN <<data>> ELSE <<>>

IsPrefix(s, t) == Len(s) <= Len(t) /\ s = SubSeq(t, 1, Len(s))

\* C2: the records placed on the completed-record queue are one per
\* (well-formed) terminal line of the input: never more, and no fewer once
\* every line has been processed.
C2_OneRecordPerTerminalLine ==
    /\ Len(pushed) <= Cardinality(TerminalLines)
    /\ Drained => Len(pushed) >= Cardinality(TerminalLines)

\* every pushed record is stored, still queued, or in the writer's hands,
\* in push order and without repetition
Conservation == PushedItems = stored \o InHand \o data_queue.items

\* C3: every record pushed onto data_queue is eventually popped by the
\* writer and passed to store_data exactly once: no record is ever lost or
\* repeated on the way, and from some point on store_data has received
\* exactly the records pushed, in push order.
C3_NoRecordDropped ==
    /\ []Conservation
    /\ <>[](stored = PushedItems)

\* C3 witness: several records were pushed and every one of them has been stored
C3_Witness ==
    /\ Len(pushed) >= 2
    /\ stored = PushedItems
    /\ rpc = "returned"

\* C4: once parse_line has returned from a terminal line for X, temp_ue_data
\* holds no entry for X.
C4_ErasedWhenParseLineReturns ==
    (ppc = "wait_pop" /\ call.outcome = "returned" /\ IsTerminal(Text(line)))
        => LineRnti(line) \notin DOMAIN temp_ue_data

\* C5: when a later terminal line completes another record for an identifier
\* that already completed one, every measurement field that no line wrote
\* since the previous completion is at its zero value.
C5_ReuseStartsFresh ==
    \A i, j \in DOMAIN pushed :
        (/\ pushed[i].src < pushed[j].src
         /\ LineRnti(pushed[i].src) = LineRnti(pushed[j].src))
        => \A f \in DataFields \ pushed[j].fresh :
               pushed[j].data[f] = UEData0[f]

\* the threads whose next statement reads or writes temp_ue_data
MapAccessors ==
    (IF ppc = "parse" THEN {"parser"} ELSE {})
        \cup (IF wpc = "erase" THEN {"writer"} ELSE {})

\* C6: temp_ue_data is accessed by the parser thread only, so no two threads
\* ever access it at the same time.
C6_MapOwnedByParser ==
    /\ MapAccessors \subseteq {"parser"}
    /\ Cardinality(MapAccessors) <= 1

\* C7: store_data receives the records in the order parse_line pushed them,
\* which is the order of their terminal lines in the input.
C7_StoredInInputOrder ==
    /\ IsPrefix(stored, PushedItems)
    /\ \A i, j \in DOMAIN stored : stored[i].src < stored[j].src => i < j
    /\ \A i \in DOMAIN stored : IsTerminal(Text(stored[i].src))

\* C7 witness: the records of two different terminal lines have been stored
C7_Witness ==
    \E i, j \in DOMAIN stored : i < j /\ stored[i].src < stored[j].src

\* C8: when std::stoi / std::stod throws inside parse_line, the call has
\* changed nothing: no field, no new entry, nothing enqueued.
C8_ThrowLeavesNoTrace == call.outcome = "threw" => ~call.dirty

\* C9: the rnti field of every completed record is the identifier of the
\* terminal line that completed it.
C9_RecordCarriesIdentifier ==
    \A i \in DOMAIN pushed : pushed[i].data.rnti = LineRnti(pushed[i].src)

\* C10: the timestamp of a completed record is the clock value at which the
\* first line for its identifier since the previous completion was processed.
C10_TimestampOfFirstLine ==
    \A i \in DOMAIN pushed :
        /\ pushed[i].lo <= pushed[i].data.timestamp
        /\ pushed[i].data.timestamp <= pushed[i].hi

\* line pos assigns value v to field f (by a conversion that succeeds)
Assigned(pos, f, v) ==
    \E i \in DOMAIN Stmts(Text(pos).rule) :
        LET s == Stmts(Text(pos).rule)[i] IN
        /\ s.field = f
        /\ CASE s.op = "str" -> v = Text(pos).state
             [] s.op = "stoi" -> /\ Converted[input[pos]][s.cap].stoi.ok
                                 /\ v = Converted[input[pos]][s.cap].stoi.val
             [] s.op = "stod" -> /\ Converted[input[pos]][s.cap].stod.ok
                                 /\ v = Converted[input[pos]][s.cap].stod.val
             [] OTHER -> FALSE

\* every measurement field of d is zero or a value some line for x assigns
OwnFields(d, x) ==
    \A f \in DataFields :
        \/ d[f] = UEData0[f]
        \/ \E pos \in 1..Len(input) : LineRnti(pos) = x /\ Assigned(pos, f, d[f])

\* the stream holds well-formed lines for the two identifiers only, and each
\* identifier has exactly one terminal line, which is its last line
TwoIdentifiers ==
    /\ \A pos \in 1..Len(input) : LineRnti(pos) \in RNTIs /\ Converts(pos)
    /\ \A x \in RNTIs :
           \E k \in TerminalLines :
               /\ LineRnti(k) = x
               /\ \A pos \in 1..Len(input) :
                      LineRnti(pos) = x => pos <= k /\ (IsTerminal(Text(pos)) => pos = k)

\* C11: on a stream of lines for two identifiers, interleaved in any order
\* and each completed by its own terminal line, exactly two records are
\* completed, one per identifier, and every field of a completed or
\* in-progress record is zero or was assigned by a line of the record's own
\* identifier.
C11_TwoRecordsNoMixing ==
    TwoIdentifiers =>
        /\ Len(pushed) <= 2
        /\ Drained => {LineRnti(pushed[i].src) : i \in DOMAIN pushed} = RNTIs
        /\ \A i \in DOMAIN pushed :
               OwnFields(pushed[i].data, LineRnti(pushed[i].src))
        /\ \A y \in DOMAIN temp_ue_data : OwnFields(temp_ue_data[y], y)

\* the record the five lines of FiveLines describe: every capture group in
\* the field named after it (PCMAX in pcmax, RSRP in rsrp)
FiveLinesRecord ==
    [UEData0 EXCEPT
        !.rnti = "928c",
        !.ue_id = Converted[1][1].stoi.val,
        !.state = LineTable[1].state,
        !.ph = Converted[1][2].stoi.val,
        !.pcmax = Converted[1][3].stoi.val,
        !.rsrp = Converted[1][4].stoi.val,
        !.cqi = Converted[2][1].stoi.val,
        !.dl_ri = Converted[2][2].stoi.val,
        !.ul_ri = Converted[9][1].stoi.val,
        !.dlsch_err = Converted[10][1].stoi.val,
        !.pucch_dtx = Converted[10][2].stoi.val,
        !.dl_bler = Converted[10][3].stod.val,
        !.dl_mcs = Converted[10][4].stoi.val,
        !.ulsch_err = Converted[3][1].stoi.val,
        !.ulsch_dtx = Converted[3][2].stoi.val,
        !.ul_bler = Converted[3][3].stod.val,
        !.ul_mcs = Converted[3][4].stoi.val,
        !.nprb = Converted[3][5].stoi.val,
        !.snr = Converted[3][6].stod.val]

\* C12: the five lines of one identifier (basic-info, quality, uplink-rank,
\* downlink-scheduling, terminal uplink) complete exactly one record, and
\* each of its fields holds the value captured for it: PCMAX 21 in pcmax and
\* RSRP -83 in rsrp, next to ue_id, state, ph and the measurements.
C12_FiveLinesOneRecord ==
    input = FiveLines =>
        /\ Len(pushed) <= 1
        /\ Drained => Len(pushed) = 1
        /\ \A i \in DOMAIN pushed :
               \A f \in DataFields \cup {"rnti"} :
                   pushed[i].data[f] = FiveLinesRecord[f]

\* C13: in every completed record, a field that no line assigned since the
\* record's entry was inserted into temp_ue_data has its type's zero value
\* (0, 0.0 or the empty string), whichever rule inserted the entry.
C13_UnwrittenFieldsZero ==
    \A i \in DOMAIN pushed :
        \A f \in DataFields \ pushed[i].made :
            pushed[i].data[f] = UEData0[f]

\* C13 witness: one completed record was started by a basic-info line and
\* lacks the quality fields, and another one was completed on an entry that
\* was inserted again in the middle of its lines
C13_Witness ==
    /\ \E i \in DOMAIN pushed :
           "ph" \in pushed[i].made /\ "cqi" \notin pushed[i].made
    /\ \E j \in DOMAIN pushed : ~(pushed[j].fresh \subseteq pushed[j].made)

\* what wait_pop returns, against the queue it found when its wait ended
WaitPopContract ==
    hlast.op = "wait_pop" =>
        /\ ~hlast.delivered <=> (hlast.before.done /\ hlast.before.items = <<>>)
        /\ hlast.before.items # <<>> =>
               /\ hlast.delivered
               /\ hlast.value = Head(hlast.before.items)
               /\ hlast.after.items = Tail(hlast.before.items)
        /\ ~hlast.delivered => hlast.after = hlast.before

\* no thread stays inside wait_pop while the queue holds an item or is done
WaitPopReleased ==
    \A t \in HThreads :
        (hpc[t] # "idle" /\ wait_pop_ready(hq))
            ~> (hpc[t] = "idle" \/ ~wait_pop_ready(hq))

\* C14: wait_pop returns without a value only when it finds the queue done
\* and empty; when it finds an item it removes and delivers the front one;
\* and a thread waiting in wait_pop is released once an item has been pushed
\* or set_done called: it never stays waiting while the queue holds an item
\* or is done.
C14_WaitPop == []WaitPopContract /\ WaitPopReleased

\* C14 witness: a wait_pop call that had to wait returned the item pushed
\* meanwhile
C14_Witness == hlast.op = "wait_pop" /\ hlast.waited /\ hlast.delivered

\* what set_done leaves behind: the flag set and the items as they were, and
\* nothing changed at all by a call on a queue that is already done
SetDoneIdempotent ==
    /\ set_done(set_done(hq)) = set_done(hq)
    /\ hlast.op = "set_done" =>
           /\ hlast.after.done
           /\ hlast.after.items = hlast.before.items
           /\ hlast.before.done => hlast.after = hlast.before

\* once the queue is done no thread stays inside wait_pop
SetDoneReleases ==
    \A t \in HThreads : (hpc[t] # "idle" /\ hq.done) ~> (hpc[t] = "idle")

\* C15: set_done is idempotent (a second call leaves the items and the done
\* flag as the first call left them), and every thread waiting in wait_pop
\* when set_done is called eventually returns.
C15_SetDone == []SetDoneIdempotent /\ SetDoneReleases

\* C15 witness: set_done has been called twice and a wait_pop call that was
\* waiting has returned without a value
C15_Witness ==
    /\ hcloses >= 2
    /\ hlast.op = "wait_pop" /\ hlast.waited /\ ~hlast.delivered

\* the positions before n whose line is not the empty string, in input order
NonEmptyBefore(n) ==
    SelectSeq([p \in 1..(n - 1) |-> p], LAMBDA p : Text(p).rule # "empty")

IsSuffix(s, t) ==
    Len(s) <= Len(t) /\ s = SubSeq(t, Len(t) - Len(s) + 1, Len(t))

\* C17: the reader has pushed exactly the non-empty lines it has read, in
\* input order, and no empty line; it calls set_done on line_queue once, when
\* every line has been read, and pushes nothing afterwards.
C17_ReaderForwards ==
    /\ rlog.pushes = NonEmptyBefore(rpos)
    /\ IsSuffix(line_queue.items, rlog.pushes)
    /\ rlog.closes = (IF rpc = "returned" THEN 1 ELSE 0)
    /\ line_queue.done <=> rpc = "returned"
    /\ rpc = "returned" => rlog.pushes = NonEmptyBefore(Len(input) + 1)

\* C17 witness: the reader has returned from a stream with an empty line and
\* a non-empty one
C17_Witness ==
    /\ rpc = "returned"
    /\ rlog.pushes # <<>>
    /\ Len(rlog.pushes) < Len(input)

\* the header rows among the rows of a file
Headers(rows) == {i \in DOMAIN rows : rows[i].kind = "header"}

\* C18: in combined mode, once the writer has been given its first record,
\* combined_file is open and starts with the header row, and at no time does
\* it hold more than one header row.
C18_CombinedHeaderFirst ==
    export_combined =>
        /\ Cardinality(Headers(combined_file.rows)) <= 1
        /\ stored # <<>> =>
               /\ combined_file.is_open
               /\ Headers(combined_file.rows) = {1}

\* the records handed to store_data whose terminal line bears identifier x
StoredFor(x) == {i \in DOMAIN stored : LineRnti(stored[i].src) = x}

\* C19: in per-entity mode, the file of identifier X exists exactly when a
\* completed record of X has been handed to store_data, it is open and
\* starts with its only header row, and every data row of any per-entity
\* file belongs to a record of the identifier the file is named after.
C19_PerEntityFiles ==
    ~export_combined =>
        /\ \A x \in RNTIs :
               /\ x \in DOMAIN ue_file_handler <=> StoredFor(x) # {}
               /\ x \in DOMAIN ue_file_handler =>
                      /\ ue_file_handler[x].is_open
                      /\ Headers(ue_file_handler[x].rows) = {1}
        /\ \A k \in DOMAIN ue_file_handler :
               \A i \in DOMAIN ue_file_handler[k].rows :
                   ue_file_handler[k].rows[i].kind = "row" =>
                       LineRnti(ue_file_handler[k].rows[i].src) = k

\* the fields the four non-terminal rules assign
NonTerminalFields ==
    UNION {{Stmts(r)[i].field : i \in DOMAIN Stmts(r)} :
               r \in {"basic", "ind1", "ind2", "dl"}}
        \cap DataFields

\* C20: in every completed record, each field a non-terminal line assigned
\* since the identifier's previous completion holds the value the last such
\* line gave it: nothing accumulated is discarded before the terminal line,
\* however the parser's statements interleave with the writer's.
C20_NothingDiscarded ==
    \A i \in DOMAIN pushed :
        \A f \in (DOMAIN pushed[i].vals) \cap NonTerminalFields :
            pushed[i].data[f] = pushed[i].vals[f]

\* C21: parse_line is called only on a line that the wait_pop before it
\* delivered, so that every line pushed onto line_queue is parsed once and
\* never again: a wait_pop that returns without a value (queue done and
\* empty) is not followed by a parse_line call.
C21_ParsedOnce ==
    (ppc \in {"parse", "wait_pop"} /\ call.outcome # "none") => popped

\* C22: on one SafeQueue called by several threads with push, attempt_pop
\* and wait_pop in any order, the values delivered by the pops, in the order
\* the pops held the mutex, are a prefix of the values pushed, in the order
\* the pushes held the mutex, the rest being the items still queued (no
\* value is delivered twice, skipped or reordered); and push never blocks: a
\* thread that is not inside a call can always complete a push.
C22_Linearizable ==
    /\ IsPrefix(hlog.got, hlog.put)
    /\ hlog.put = hlog.got \o hq.items
    /\ \A t \in HThreads :
           (hpc[t] = "idle" /\ hops < MaxOps) => ENABLED call_push(t)

\* C22 witness: two values were pushed while a thread was waiting in
\* wait_pop; another pop took the first one and the waiting thread then got the
\* second one
C22_Witness ==
    /\ Len(hlog.got) = 2
    /\ hlast.op = "wait_pop" /\ hlast.waited /\ hlast.delivered
    /\ hlast.value = hlog.put[2]

\* the fields each rule extracts from the text it matches
RuleFields(rule) ==
    CASE rule = "basic" -> {"ue_id", "state", "ph", "pcmax", "rsrp"}
      [] rule = "ind1" -> {"cqi", "dl_ri"}
      [] rule = "ind2" -> {"ul_ri"}
      [] rule = "dl" -> {"dlsch_err", "pucch_dtx", "dl_bler", "dl_mcs"}
      [] rule = "ul" -> {"ulsch_err", "ulsch_dtx", "ul_bler", "ul_mcs", "nprb",
                         "snr"}
      [] OTHER -> {}

\* parse_line is running on, or has last run on, the line the parser popped
CallOnPoppedLine ==
    ppc \in {"parse", "wait_pop"} /\ call.outcome # "none" /\ popped

\* C23: a parse_line call on a matched non-terminal line for X changes, in
\* X's entry, fields of the line's own rule only (and the identifier and the
\* timestamp when it inserts the entry); it changes no other entry and pushes
\* nothing onto data_queue.
C23_NonTerminalFrame ==
    (CallOnPoppedLine /\ Text(line).rule \in {"basic", "ind1", "ind2", "dl"}) =>
        /\ call.changed \subseteq
               RuleFields(Text(line).rule)
                   \cup (IF call.inserted THEN {"rnti", "timestamp"} ELSE {})
        /\ ~call.other
        /\ ~call.queued

\* the five rules of parse_line
FiveRules == {"basic", "ind1", "ind2", "dl", "ul"}

\* "call" describes parse_line on "line" from parser_check until the next
\* wait_pop has returned
CallOnLine == ppc \in {"parse", "wait_pop"} /\ call.outcome # "none"

\* C24: a call of parse_line on a line that matches none of the five rules
\* returns normally (nothing thrown, nothing for the catch block), has changed
\* no field of any in-progress record, inserted no record and queued nothing,
\* and the parser is back at its wait_pop for the next line.
C24_UnmatchedLineIgnored ==
    (CallOnLine /\ Text(line).rule \notin FiveRules) =>
        /\ call.outcome = "returned"
        /\ ppc = "wait_pop"
        /\ ~call.dirty
        /\ call.changed = {}
        /\ ~call.inserted
        /\ ~call.other
        /\ ~call.queued

\* an unmatched line popped from the queue has been through parse_line while
\* an in-progress record was in the working set
C24_Witness ==
    /\ CallOnLine /\ popped
    /\ call.outcome = "returned"
    /\ Text(line).rule = "none"
    /\ temp_ue_data # <<>>

(* ------------- the single-threaded parser (src/main.cpp) --------------- *)
\* Parser::Parser of src/main.cpp in combined mode: temp_ue_data empty,
\* combined_file opened and given its header row
streaming_Parser == [m |-> <<>>, file |-> write(open(ofstream0), HeaderRow)]

\* store_data(rnti) of src/main.cpp in combined mode: the row of
\* temp_ue_data[rnti] goes to combined_file, then temp_ue_data.erase(rnti)
streaming_store_data(st, x, pos) ==
    LET m1 == MapTouch(st.m, x)
    IN  [m    |-> MapErase(m1, x),
         file |-> write(st.file, DataRow([data |-> m1[x], src |-> pos]))]

\* parse_line of src/main.cpp on the line at pos, from statement i of the
\* matched rule's body on (the bodies are those of Stmts, with store_data
\* called where the threaded parse_line pushes). A std::stoi or std::stod
\* that throws ends the call: main catches the exception. std::time is
\* taken to return 0: the rows are compared without their timestamps.
RECURSIVE streaming_parse_line(_, _, _)
streaming_parse_line(st, pos, i) ==
    LET ln   == Text(pos)
        x    == ln.rnti
        body == Stmts(ln.rule)
    IN  IF i > Len(body) THEN st
        ELSE LET s    == body[i]
                 conv == CASE s.op = "stoi" -> Converted[input[pos]][s.cap].stoi
                           [] s.op = "stod" -> Converted[input[pos]][s.cap].stod
                           [] OTHER -> [ok |-> TRUE, val |-> 0]
                 m1   == CASE s.op = "create" -> MapTouch(st.m, x)
                           [] s.op = "rnti" -> MapSet(st.m, x, s.field, x)
                           [] s.op = "stamp" -> MapSet(st.m, x, s.field, 0)
                           [] s.op = "str" -> MapSet(st.m, x, s.field, ln.state)
                           [] s.op = "push" -> st.m
                           [] OTHER -> MapSet(st.m, x, s.field, conv.val)
                 found == s.op = "create" /\ x \in DOMAIN st.m
                 next == i + (IF found THEN s.skip ELSE 1)
             IN  IF ~conv.ok THEN st
                 ELSE IF s.op = "push"
                      THEN streaming_parse_line(streaming_store_data(st, x, pos),
                                                pos, next)
                      ELSE streaming_parse_line([st EXCEPT !.m = m1], pos, next)

\* the loop of main in src/main.cpp from input position pos on:
\* while (std::getline(std::cin, line)) if (!line.empty()) parse_line(line)
RECURSIVE streaming_main(_, _)
streaming_main(st, pos) ==
    IF pos > Len(input) THEN st
    ELSE streaming_main(IF not_empty(pos) THEN streaming_parse_line(st, pos, 1)
                        ELSE st,
                        pos + 1)

\* the records a combined file holds, in order, timestamps left out
Persisted(f) ==
    LET recs == SelectSeq(f.rows, LAMBDA r : r.kind = "row")
    IN  [i \in DOMAIN recs |-> [recs[i].data EXCEPT !.timestamp = 0]]

\* the threaded pipeline has nothing left to do: every line has been read
\* and parsed, and the writer has stored every record that was pushed
Quiescent ==
    /\ Drained
    /\ is_empty(data_queue)
    /\ wpc = "wait_pop"
    /\ stored = PushedItems

\* C25: in combined mode the records the threaded pipeline has persisted are
\* at every moment the first records the single-threaded parser of
\* src/main.cpp persists for the same input (timestamps left out), and all
\* of them once the pipeline has nothing left to do.
C25_SameRecordsAsStreaming ==
    export_combined =>
        LET ref == Persisted(streaming_main(streaming_Parser, 1).file)
            got == Persisted(combined_file)
        IN  /\ IsPrefix(got, ref)
            /\ Quiescent => got = ref

=============================================================================
